---- MODULE Spec2Model ----
(***************************************************************************)
(* Model of the MCP tool-connection Manager (internal/adk/mcp/manager.go). *)
(* The Manager owns the enabled server configs and a cache of toolsets,    *)
(* guarded by one sync.RWMutex.  Callers are concurrent goroutines; each   *)
(* goroutine's position inside a method is its pc.                         *)
(***************************************************************************)
EXTENDS Naturals, Sequences, FiniteSets, TLC

\* ------------------------------------------------------------------ bounds
\* Total number of toolsets mcptoolset.New may hand out in one behaviour.
MaxBuilds == 2
\* Longest config slice passed to LoadConfigs.
MaxConfigs == 2
\* Longest id slice passed to GetToolsetsByIDs.
MaxIds == 2

\* ------------------------------------------------------------------ domains
Procs == {"g1", "g2"}
Ids == {"a", "b"}
Names == {"fs"}
Scopes == {"ctx1", "ctx2"}

NoProc == "none"
NoScope == "nil"
NoConfig == [ID |-> "", Name |-> "", Enabled |-> FALSE]
NoArg == "noarg"
NoRet == <<>>
NoBatch == [ids |-> <<>>, i |-> 0, got |-> <<>>, all |-> <<>>]
NoAux == <<>>
NilError == "nil"
EmptyMap == [x \in {} |-> x]
\* History of a call that holds the write lock: the toolsets it dropped from
\* the cache, the builds that failed in it, the toolsets it built.
History(d, f, b) == [dropped |-> d, fails |-> f, built |-> b]

\* models.MCPServerConfig, reduced to the fields the Manager reads.
MCPServerConfig == [ID : Ids, Name : Names, Enabled : BOOLEAN]

SeqsUpTo(S, n) == UNION {[1..k -> S] : k \in 0..n}
ConfigSlices == SeqsUpTo(MCPServerConfig, MaxConfigs)
IdSlices == SeqsUpTo(Ids, MaxIds)

Range(f) == {f[x] : x \in DOMAIN f}
Put(m, k, v) == [x \in (DOMAIN m) \cup {k} |-> IF x = k THEN v ELSE m[x]]
\* Every order in which a Go `range` over a map with key set S may visit it.
Orders(S) == {o \in [1..Cardinality(S) -> S] : Range(o) = S}

\* ------------------------------------------------------------------ state
VARIABLES
    ctx,        \* Manager.ctx
    configs,    \* Manager.configs: id -> config
    toolsets,   \* Manager.toolsets: id -> toolset
    wlock,      \* goroutine holding Manager.mu for writing, or NoProc
    rlock,      \* goroutines holding Manager.mu for reading
    serial,     \* number of toolsets built so far (object identity)
    pc,         \* each goroutine's position
    arg,        \* each goroutine's call argument
    ret,        \* each goroutine's return value
    aux,        \* the running call's local cfg, or its history (see History)
    live,       \* history: toolsets built for the cache and still cached
    enabledIds, \* history: ids enabled in the latest LoadConfigs argument
    session,    \* history: the probe session of each goroutine's running call
    clock,      \* time elapsed on the deadline context of each running probe
    batch       \* the loop state of each running GetToolInfosByServerIDs

vars == <<ctx, configs, toolsets, wlock, rlock, serial, pc, arg, ret, aux,
          live, enabledIds, session, clock, batch>>

mgr == <<ctx, configs, toolsets>>
locks == <<wlock, rlock>>
hist == <<live, enabledIds>>
probe == <<session, clock, batch>>

\* NewManager
Init ==
    /\ ctx = NoScope
    /\ configs = EmptyMap
    /\ toolsets = EmptyMap
    /\ wlock = NoProc
    /\ rlock = {}
    /\ serial = 0
    /\ pc = [p \in Procs |-> "idle"]
    /\ arg = [p \in Procs |-> NoArg]
    /\ ret = [p \in Procs |-> NoRet]
    /\ aux = [p \in Procs |-> NoAux]
    /\ live = {}
    /\ enabledIds = {}
    /\ session = [p \in Procs |-> "none"]
    /\ clock = [p \in Procs |-> 0]
    /\ batch = [p \in Procs |-> NoBatch]

\* ------------------------------------------------------------------ mutex
\* RLock that does not wait for the writer.
CanRLockAlways == TRUE

\* Lock that does not wait for the readers.
CanLockIgnoringReaders == wlock = NoProc
\* Lock that waits for nobody.
CanLockAlways == TRUE

\* sync.RWMutex: Lock waits for the writer and all readers to leave.
CanLock == wlock = NoProc /\ rlock = {}
\* sync.RWMutex: RLock waits for the writer to leave.
CanRLock == wlock = NoProc

\* ------------------------------------------------------------------ build
\* Initialize's loop returning at the first failed build (return for the
\* continue of line 68).
RECURSIVE InitializeLoopAbort(_, _, _, _, _)
InitializeLoopAbort(order, cfgs, ts, n, fails) ==
    IF order = <<>> THEN [ts |-> ts, n |-> n, built |-> {}]
    ELSE LET id == Head(order) IN
         IF id \in DOMAIN ts
         THEN InitializeLoopAbort(Tail(order), cfgs, ts, n, fails)
         ELSE IF id \in fails
              THEN [ts |-> ts, n |-> n, built |-> {}]
              ELSE LET rest == InitializeLoopAbort(Tail(order), cfgs,
                                   Put(ts, id, [id |-> id, n |-> n + 1]), n + 1, fails)
                   IN [rest EXCEPT !.built = @ \cup {[id |-> id, n |-> n + 1]}]

\* createToolsetLocked: mcptoolset.New either fails or returns a new toolset.
\* A toolset is identified by the config id it was built from and the
\* number of the build.
createToolsetLocked(cfg, n, fail) ==
    IF fail THEN [err |-> TRUE, ts |-> [id |-> cfg.ID, n |-> 0], n |-> n]
    ELSE [err |-> FALSE, ts |-> [id |-> cfg.ID, n |-> n + 1], n |-> n + 1]

\* Initialize's loop without the cache check of lines 62-64: a cached id is
\* built again.
RECURSIVE InitializeLoopRebuild(_, _, _, _, _)
InitializeLoopRebuild(order, cfgs, ts, n, fails) ==
    IF order = <<>> THEN [ts |-> ts, n |-> n, built |-> {}]
    ELSE LET id == Head(order)
             r == createToolsetLocked(cfgs[id], n, id \in fails)
         IN IF r.err
            THEN InitializeLoopRebuild(Tail(order), cfgs, ts, n, fails)
            ELSE LET rest == InitializeLoopRebuild(Tail(order), cfgs,
                                                   Put(ts, id, r.ts), r.n, fails)
                 IN [rest EXCEPT !.built = @ \cup {r.ts}]

\* Initialize, lines 61-72: visit the configs in map order, skip cached ids,
\* skip ids whose build fails, cache the rest.
RECURSIVE InitializeLoop(_, _, _, _, _)
InitializeLoop(order, cfgs, ts, n, fails) ==
    IF order = <<>> THEN [ts |-> ts, n |-> n, built |-> {}]
    ELSE LET id == Head(order) IN
         IF id \in DOMAIN ts
         THEN InitializeLoop(Tail(order), cfgs, ts, n, fails)
         ELSE LET r == createToolsetLocked(cfgs[id], n, id \in fails) IN
              IF r.err
              THEN InitializeLoop(Tail(order), cfgs, ts, n, fails)
              ELSE LET rest == InitializeLoop(Tail(order), cfgs,
                                              Put(ts, id, r.ts), r.n, fails)
                   IN [rest EXCEPT !.built = @ \cup {r.ts}]

\* LoadConfigs without line 83: the cache survives the reload.
LoadConfigsClearConfigsOnly(cfgs, ts) == [configs |-> EmptyMap, toolsets |-> ts]

\* LoadConfigs without lines 82-83: the reload adds to what is there.
LoadConfigsClearNothing(cfgs, ts) == [configs |-> cfgs, toolsets |-> ts]

\* LoadConfigs, lines 82-83: both maps are replaced by empty ones.
LoadConfigsClear(cfgs, ts) == [configs |-> EmptyMap, toolsets |-> EmptyMap]

\* LoadConfigs without the Enabled test of lines 87-89.
RECURSIVE LoadConfigsFilterAll(_, _, _)
LoadConfigsFilterAll(cs, i, cfgs) ==
    IF i > Len(cs) THEN cfgs
    ELSE LoadConfigsFilterAll(cs, i + 1, Put(cfgs, cs[i].ID, cs[i]))

\* LoadConfigs, lines 85-92: keep the enabled entries, keyed by id
\* (a later entry with the same id replaces an earlier one).
RECURSIVE LoadConfigsFilter(_, _, _)
LoadConfigsFilter(cs, i, cfgs) ==
    IF i > Len(cs) THEN cfgs
    ELSE IF ~cs[i].Enabled
         THEN LoadConfigsFilter(cs, i + 1, cfgs)
         ELSE LoadConfigsFilter(cs, i + 1, Put(cfgs, cs[i].ID, cs[i]))

\* LoadConfigs, lines 95-105: with a context bound, build every config.
RECURSIVE LoadConfigsLoop(_, _, _, _, _)
LoadConfigsLoop(order, cfgs, ts, n, fails) ==
    IF order = <<>> THEN [ts |-> ts, n |-> n, built |-> {}]
    ELSE LET id == Head(order)
             r == createToolsetLocked(cfgs[id], n, id \in fails)
         IN IF r.err
            THEN LoadConfigsLoop(Tail(order), cfgs, ts, n, fails)
            ELSE LET rest == LoadConfigsLoop(Tail(order), cfgs,
                                             Put(ts, id, r.ts), r.n, fails)
                 IN [rest EXCEPT !.built = @ \cup {r.ts}]

\* GetToolsetsByIDs's loop leaving at the first unconfigured id (break for
\* the continue of line 164).
RECURSIVE GetToolsetsByIDsLoopBreak(_, _, _, _, _, _, _, _)
GetToolsetsByIDsLoopBreak(ids, i, cfgs, ts, n, fails, result, built) ==
    IF i > Len(ids) THEN [ts |-> ts, n |-> n, built |-> built, result |-> result]
    ELSE LET id == ids[i] IN
         IF id \in DOMAIN ts
         THEN GetToolsetsByIDsLoopBreak(ids, i + 1, cfgs, ts, n, fails,
                                        Append(result, ts[id]), built)
         ELSE IF id \notin DOMAIN cfgs
         THEN [ts |-> ts, n |-> n, built |-> built, result |-> result]
         ELSE LET r == createToolsetLocked(cfgs[id], n, i \in fails) IN
              IF r.err
              THEN GetToolsetsByIDsLoopBreak(ids, i + 1, cfgs, ts, n, fails,
                                             result, built)
              ELSE GetToolsetsByIDsLoopBreak(ids, i + 1, cfgs, Put(ts, id, r.ts),
                                             r.n, fails, Append(result, r.ts),
                                             built \cup {r.ts})

\* GetToolsetsByIDs, lines 152-174: fails is the set of positions of ids at
\* which a build, if attempted, fails.
RECURSIVE GetToolsetsByIDsLoop(_, _, _, _, _, _, _, _)
GetToolsetsByIDsLoop(ids, i, cfgs, ts, n, fails, result, built) ==
    IF i > Len(ids) THEN [ts |-> ts, n |-> n, built |-> built, result |-> result]
    ELSE LET id == ids[i] IN
         IF id \in DOMAIN ts
         THEN GetToolsetsByIDsLoop(ids, i + 1, cfgs, ts, n, fails,
                                   Append(result, ts[id]), built)
         ELSE IF id \notin DOMAIN cfgs
         THEN GetToolsetsByIDsLoop(ids, i + 1, cfgs, ts, n, fails, result, built)
         ELSE LET r == createToolsetLocked(cfgs[id], n, i \in fails) IN
              IF r.err
              THEN GetToolsetsByIDsLoop(ids, i + 1, cfgs, ts, n, fails, result, built)
              ELSE GetToolsetsByIDsLoop(ids, i + 1, cfgs, Put(ts, id, r.ts), r.n,
                                        fails, Append(result, r.ts),
                                        built \cup {r.ts})

\* GetAllToolsets's loop without the cache check of lines 187-190.
RECURSIVE GetAllToolsetsLoopRebuild(_, _, _, _, _, _, _)
GetAllToolsetsLoopRebuild(order, cfgs, ts, n, fails, result, built) ==
    IF order = <<>> THEN [ts |-> ts, n |-> n, built |-> built, result |-> result]
    ELSE LET id == Head(order)
             r == createToolsetLocked(cfgs[id], n, id \in fails)
         IN IF r.err
            THEN GetAllToolsetsLoopRebuild(Tail(order), cfgs, ts, n, fails,
                                           result, built)
            ELSE GetAllToolsetsLoopRebuild(Tail(order), cfgs, Put(ts, id, r.ts),
                                           r.n, fails, Append(result, r.ts),
                                           built \cup {r.ts})

\* GetAllToolsets's loop without the build of lines 191-197: an id that is
\* not cached is left out.
RECURSIVE GetAllToolsetsLoopCachedOnly(_, _, _, _, _, _, _)
GetAllToolsetsLoopCachedOnly(order, cfgs, ts, n, fails, result, built) ==
    IF order = <<>> THEN [ts |-> ts, n |-> n, built |-> built, result |-> result]
    ELSE LET id == Head(order) IN
         GetAllToolsetsLoopCachedOnly(Tail(order), cfgs, ts, n, fails,
             IF id \in DOMAIN ts THEN Append(result, ts[id]) ELSE result, built)

\* GetAllToolsets, lines 185-198.
RECURSIVE GetAllToolsetsLoop(_, _, _, _, _, _, _)
GetAllToolsetsLoop(order, cfgs, ts, n, fails, result, built) ==
    IF order = <<>> THEN [ts |-> ts, n |-> n, built |-> built, result |-> result]
    ELSE LET id == Head(order) IN
         IF id \in DOMAIN ts
         THEN GetAllToolsetsLoop(Tail(order), cfgs, ts, n, fails,
                                 Append(result, ts[id]), built)
         ELSE LET r == createToolsetLocked(cfgs[id], n, id \in fails) IN
              IF r.err
              THEN GetAllToolsetsLoop(Tail(order), cfgs, ts, n, fails, result, built)
              ELSE GetAllToolsetsLoop(Tail(order), cfgs, Put(ts, id, r.ts), r.n,
                                      fails, Append(result, r.ts),
                                      built \cup {r.ts})

\* GetAllStatus, lines 207-210: one record per config, id only.
GetAllStatusLoop(order) ==
    [i \in 1..Len(order) |-> [ID |-> order[i], Connected |-> FALSE, Error |-> ""]]

\* ------------------------------------------------------------------ actions
\* A goroutine's argument is drawn at the step that first reads it.
Enter(p, label) ==
    /\ pc[p] = "idle"
    /\ pc' = [pc EXCEPT ![p] = label]

Leave(p) ==
    /\ pc' = [pc EXCEPT ![p] = "idle"]
    /\ arg' = [arg EXCEPT ![p] = NoArg]
    /\ ret' = [ret EXCEPT ![p] = NoRet]
    /\ aux' = [aux EXCEPT ![p] = NoAux]

\* Initialize, line 55: m.mu.Lock()
InitializeLock(p) ==
    /\ CanLock
    /\ Enter(p, "init_locked")
    /\ wlock' = p
    /\ UNCHANGED <<mgr, rlock, serial, arg, ret, aux, hist, probe>>

\* Initialize, lines 58-73
InitializeBody(p) ==
    /\ pc[p] = "init_locked"
    /\ \E s \in Scopes, order \in Orders(DOMAIN configs),
          fails \in SUBSET (DOMAIN configs) :
         LET r == InitializeLoop(order, configs, toolsets, serial, fails) IN
         /\ r.n <= MaxBuilds
         /\ ctx' = s
         /\ toolsets' = r.ts
         /\ serial' = r.n
         /\ live' = live \cup r.built
         /\ arg' = [arg EXCEPT ![p] = s]
         /\ aux' = [aux EXCEPT ![p] = History({}, fails, r.built)]
    /\ ret' = [ret EXCEPT ![p] = NilError]
    /\ pc' = [pc EXCEPT ![p] = "init_ret"]
    /\ UNCHANGED <<configs, locks, enabledIds, probe>>

\* LoadConfigs, line 78: m.mu.Lock()
LoadConfigsLock(p) ==
    /\ CanLock
    /\ Enter(p, "lc_locked")
    /\ wlock' = p
    /\ UNCHANGED <<mgr, rlock, serial, arg, ret, aux, hist, probe>>

\* LoadConfigs, lines 82-83
LoadConfigsReset(p) ==
    /\ pc[p] = "lc_locked"
    /\ LET r == LoadConfigsClear(configs, toolsets) IN
         /\ configs' = r.configs
         /\ toolsets' = r.toolsets
    /\ live' = {}
    /\ aux' = [aux EXCEPT ![p] = History(Range(toolsets), {}, {})]
    /\ pc' = [pc EXCEPT ![p] = "lc_cleared"]
    /\ UNCHANGED <<ctx, locks, serial, arg, ret, enabledIds, probe>>

\* LoadConfigs, lines 85-106
LoadConfigsBody(p) ==
    /\ pc[p] = "lc_cleared"
    /\ \E cs \in ConfigSlices :
         LET cfgs == LoadConfigsFilter(cs, 1, configs) IN
         /\ configs' = cfgs
         /\ arg' = [arg EXCEPT ![p] = cs]
         /\ enabledIds' = {cs[i].ID : i \in {j \in 1..Len(cs) : cs[j].Enabled}}
         /\ IF ctx # NoScope
            THEN \E order \in Orders(DOMAIN cfgs), fails \in SUBSET (DOMAIN cfgs) :
                   LET r == LoadConfigsLoop(order, cfgs, toolsets, serial, fails) IN
                   /\ r.n <= MaxBuilds
                   /\ toolsets' = r.ts
                   /\ serial' = r.n
                   /\ live' = live \cup r.built
                   /\ aux' = [aux EXCEPT ![p] = History(aux[p].dropped, fails, r.built)]
            ELSE UNCHANGED <<toolsets, serial, live, aux>>
    /\ ret' = [ret EXCEPT ![p] = NilError]
    /\ pc' = [pc EXCEPT ![p] = "lc_ret"]
    /\ UNCHANGED <<ctx, locks, probe>>

\* GetToolsetsByIDs, line 147: m.mu.Lock()
GetToolsetsByIDsLock(p) ==
    /\ CanLock
    /\ Enter(p, "gt_locked")
    /\ wlock' = p
    /\ UNCHANGED <<mgr, rlock, serial, arg, ret, aux, hist, probe>>

\* GetToolsetsByIDs, lines 150-176
GetToolsetsByIDsBody(p) ==
    /\ pc[p] = "gt_locked"
    /\ \E ids \in IdSlices :
         \E fails \in SUBSET (1..Len(ids)) :
           LET r == GetToolsetsByIDsLoop(ids, 1, configs, toolsets, serial,
                                         fails, <<>>, {}) IN
           /\ r.n <= MaxBuilds
           /\ toolsets' = r.ts
           /\ serial' = r.n
           /\ live' = live \cup r.built
           /\ arg' = [arg EXCEPT ![p] = ids]
           /\ ret' = [ret EXCEPT ![p] = r.result]
           /\ aux' = [aux EXCEPT ![p] = History({}, fails, r.built)]
    /\ pc' = [pc EXCEPT ![p] = "gt_ret"]
    /\ UNCHANGED <<ctx, configs, locks, enabledIds, probe>>

\* GetAllToolsets, line 181: m.mu.Lock()
GetAllToolsetsLock(p) ==
    /\ CanLock
    /\ Enter(p, "ga_locked")
    /\ wlock' = p
    /\ UNCHANGED <<mgr, rlock, serial, arg, ret, aux, hist, probe>>

\* GetAllToolsets, lines 184-199
GetAllToolsetsBody(p) ==
    /\ pc[p] = "ga_locked"
    /\ \E order \in Orders(DOMAIN configs), fails \in SUBSET (DOMAIN configs) :
         LET r == GetAllToolsetsLoop(order, configs, toolsets, serial,
                                     fails, <<>>, {}) IN
         /\ r.n <= MaxBuilds
         /\ toolsets' = r.ts
         /\ serial' = r.n
         /\ live' = live \cup r.built
         /\ ret' = [ret EXCEPT ![p] = r.result]
         /\ aux' = [aux EXCEPT ![p] = History({}, fails, r.built)]
    /\ pc' = [pc EXCEPT ![p] = "ga_ret"]
    /\ UNCHANGED <<ctx, configs, locks, arg, enabledIds, probe>>

\* defer m.mu.Unlock() of Initialize, LoadConfigs, GetToolsetsByIDs and
\* GetAllToolsets: the call returns.
Unlock(p) ==
    /\ pc[p] \in {"init_ret", "lc_ret", "gt_ret", "ga_ret"}
    /\ wlock' = NoProc
    /\ Leave(p)
    /\ UNCHANGED <<mgr, rlock, serial, hist, probe>>

\* GetAllStatus, line 204: m.mu.RLock()
GetAllStatusRLock(p) ==
    /\ CanRLock
    /\ Enter(p, "gs_rlocked")
    /\ rlock' = rlock \cup {p}
    /\ UNCHANGED <<mgr, wlock, serial, arg, ret, aux, hist, probe>>

\* GetAllStatus, lines 207-211
GetAllStatusBody(p) ==
    /\ pc[p] = "gs_rlocked"
    /\ \E order \in Orders(DOMAIN configs) :
         ret' = [ret EXCEPT ![p] = GetAllStatusLoop(order)]
    /\ pc' = [pc EXCEPT ![p] = "gs_ret"]
    /\ UNCHANGED <<mgr, locks, serial, arg, aux, hist, probe>>

\* GetAllStatus, defer m.mu.RUnlock(): the call returns.
GetAllStatusRUnlock(p) ==
    /\ pc[p] = "gs_ret"
    /\ rlock' = rlock \ {p}
    /\ Leave(p)
    /\ UNCHANGED <<mgr, wlock, serial, hist, probe>>

\* TestConnection, line 222: the error text of an unconfigured server
\* (the source's literal is Chinese for "server not configured"; written
\* here in pinyin).
ErrNotConfigured == "fuwuqi wei peizhi"
\* err.Error() of a failed client.Connect or session.ListTools.
ErrRefused == "connection refused"
ErrDeadline == "context deadline exceeded"

\* TestConnection without the return of lines 221-223: a missing config
\* goes on to the connection attempt.
TestConnectionLookupNoReturn(id, cfgs) ==
    IF id \in DOMAIN cfgs
    THEN [ok |-> TRUE, cfg |-> cfgs[id], status |-> NoRet]
    ELSE [ok |-> TRUE, cfg |-> NoConfig, status |-> NoRet]

\* TestConnection, lines 218 and 221-223: the lookup and what it returns at
\* once when the id is not configured.
TestConnectionLookup(id, cfgs) ==
    IF id \in DOMAIN cfgs
    THEN [ok |-> TRUE, cfg |-> cfgs[id], status |-> NoRet]
    ELSE [ok |-> FALSE, cfg |-> NoConfig,
          status |-> [ID |-> id, Connected |-> FALSE, Error |-> ErrNotConfigured]]

\* TestConnection, line 217: m.mu.RLock()
TestConnectionRLock(p) ==
    /\ CanRLock
    /\ Enter(p, "tc_rlocked")
    /\ rlock' = rlock \cup {p}
    /\ UNCHANGED <<mgr, wlock, serial, arg, ret, aux, hist, probe>>

\* TestConnection, lines 218-223: read the config, m.mu.RUnlock(), return
\* when the id is not configured.
TestConnectionRead(p) ==
    /\ pc[p] = "tc_rlocked"
    /\ rlock' = rlock \ {p}
    /\ \E id \in Ids :
         LET r == TestConnectionLookup(id, configs) IN
         /\ arg' = [arg EXCEPT ![p] = id]
         /\ aux' = [aux EXCEPT ![p] = r.cfg]
         /\ ret' = [ret EXCEPT ![p] = r.status]
         /\ pc' = [pc EXCEPT ![p] = IF r.ok THEN "tc_connect" ELSE "tc_ret"]
    /\ UNCHANGED <<mgr, wlock, serial, hist, probe>>

\* TestConnection, line 225, and GetServerTools, line 250: the deadlines of
\* the contexts the two probes derive from context.Background().
TestConnectionTimeout == 5
GetServerToolsTimeout == 10

\* Deadline(label): the deadline of the call a goroutine at label is in.
Deadline(label) ==
    IF label = "tc_connect" THEN TestConnectionTimeout ELSE GetServerToolsTimeout

\* Time passes on a probe waiting for its server until the deadline of the
\* probe's context is reached, the server not having answered.
Elapse(p) ==
    /\ pc[p] \in {"tc_connect", "st_connect", "st_list"}
    /\ clock[p] < Deadline(pc[p])
    /\ clock' = [clock EXCEPT ![p] = Deadline(pc[p])]
    /\ UNCHANGED <<mgr, locks, serial, pc, arg, ret, aux, hist, session, batch>>

\* TestConnection, lines 225-237: client.Connect answers before the
\* deadline, no lock held.  The session Connect returns is not kept.
TestConnectionConnect(p) ==
    /\ pc[p] = "tc_connect"
    /\ clock[p] < TestConnectionTimeout
    /\ \E outcome \in {"ok", "refused"} :
         /\ session' = [session EXCEPT ![p] = IF outcome = "ok" THEN "open" ELSE "failed"]
         /\ ret' = [ret EXCEPT ![p] =
                IF outcome = "ok"
                THEN [ID |-> arg[p], Connected |-> TRUE, Error |-> ""]
                ELSE [ID |-> arg[p], Connected |-> FALSE, Error |-> ErrRefused]]
    /\ pc' = [pc EXCEPT ![p] = "tc_ret"]
    /\ UNCHANGED <<mgr, locks, serial, arg, aux, hist, clock, batch>>

\* A context without a deadline: Connect waits for the server for ever.
TestConnectionNoDeadline(p) ==
    /\ pc[p] = "tc_connect"
    /\ FALSE
    /\ UNCHANGED vars

\* TestConnection, lines 225-234: the deadline of ctx is reached and
\* client.Connect returns the context's error.
TestConnectionDeadline(p) ==
    /\ pc[p] = "tc_connect"
    /\ clock[p] = TestConnectionTimeout
    /\ session' = [session EXCEPT ![p] = "failed"]
    /\ ret' = [ret EXCEPT ![p] =
           [ID |-> arg[p], Connected |-> FALSE, Error |-> ErrDeadline]]
    /\ pc' = [pc EXCEPT ![p] = "tc_ret"]
    /\ UNCHANGED <<mgr, locks, serial, arg, aux, hist, clock, batch>>

\* ToolInfo records that carry the server id in both fields.
ToolInfosByIdOnly(tools, id, cfg) ==
    [i \in 1..Len(tools) |-> [Name |-> tools[i], ServerID |-> id, ServerName |-> id]]

\* ToolInfo records of GetServerTools, lines 266-274.
ToolNames == {"read"}
ToolInfos(tools, id, cfg) ==
    [i \in 1..Len(tools) |-> [Name |-> tools[i], ServerID |-> id, ServerName |-> cfg.Name]]

\* GetServerTools, line 242: m.mu.RLock()
GetServerToolsRLock(p) ==
    /\ CanRLock
    /\ Enter(p, "st_rlocked")
    /\ rlock' = rlock \cup {p}
    /\ UNCHANGED <<mgr, wlock, serial, arg, ret, aux, hist, probe>>

\* The serverID GetServerTools is called with: any id when the caller is
\* outside the module, ids[i] when it is GetToolInfosByServerIDs (line 283).
GetServerToolsArg(p) ==
    IF batch[p] = NoBatch THEN Ids ELSE {batch[p].ids[batch[p].i]}

\* GetServerTools, lines 243-248
GetServerToolsRead(p) ==
    /\ pc[p] = "st_rlocked"
    /\ rlock' = rlock \ {p}
    /\ \E id \in GetServerToolsArg(p) :
         /\ arg' = [arg EXCEPT ![p] = id]
         /\ IF id \in DOMAIN configs
            THEN /\ aux' = [aux EXCEPT ![p] = configs[id]]
                 /\ pc' = [pc EXCEPT ![p] = "st_connect"]
                 /\ UNCHANGED ret
            ELSE /\ aux' = [aux EXCEPT ![p] = NoConfig]
                 /\ ret' = [ret EXCEPT ![p] = [tools |-> <<>>, err |-> NilError]]
                 /\ pc' = [pc EXCEPT ![p] = "st_ret"]
    /\ UNCHANGED <<mgr, wlock, serial, hist, probe>>

\* GetServerTools, lines 250-258: client.Connect answers before the 10 s
\* deadline.
GetServerToolsConnect(p) ==
    /\ pc[p] = "st_connect"
    /\ clock[p] < GetServerToolsTimeout
    /\ \E outcome \in {"ok", "refused"} :
         IF outcome = "ok"
         THEN /\ session' = [session EXCEPT ![p] = "open"]
              /\ pc' = [pc EXCEPT ![p] = "st_list"]
              /\ UNCHANGED ret
         ELSE /\ session' = [session EXCEPT ![p] = "failed"]
              /\ ret' = [ret EXCEPT ![p] = [tools |-> <<>>, err |-> ErrRefused]]
              /\ pc' = [pc EXCEPT ![p] = "st_ret"]
    /\ UNCHANGED <<mgr, locks, serial, arg, aux, hist, clock, batch>>

\* GetServerTools, lines 259-275: session.ListTools answers before the
\* deadline, then the deferred session.Close().
GetServerToolsList(p) ==
    /\ pc[p] = "st_list"
    /\ clock[p] < GetServerToolsTimeout
    /\ \E outcome \in {"ok", "error"}, tools \in SeqsUpTo(ToolNames, 1) :
         ret' = [ret EXCEPT ![p] =
            IF outcome = "ok"
            THEN [tools |-> ToolInfos(tools, arg[p], aux[p]), err |-> NilError]
            ELSE [tools |-> <<>>, err |-> ErrRefused]]
    /\ session' = [session EXCEPT ![p] = "closed"]
    /\ pc' = [pc EXCEPT ![p] = "st_ret"]
    /\ UNCHANGED <<mgr, locks, serial, arg, aux, hist, clock, batch>>

\* GetServerTools, lines 250-264: the deadline of ctx is reached while
\* client.Connect or session.ListTools waits; the call returns the
\* context's error, after the deferred session.Close() when connected.
GetServerToolsDeadline(p) ==
    /\ pc[p] \in {"st_connect", "st_list"}
    /\ clock[p] = GetServerToolsTimeout
    /\ session' = [session EXCEPT ![p] =
           IF pc[p] = "st_list" THEN "closed" ELSE "failed"]
    /\ ret' = [ret EXCEPT ![p] = [tools |-> <<>>, err |-> ErrDeadline]]
    /\ pc' = [pc EXCEPT ![p] = "st_ret"]
    /\ UNCHANGED <<mgr, locks, serial, arg, aux, hist, clock, batch>>

\* GetToolInfosByServerIDs, lines 280-282 and 293: var allTools, and the
\* return at once when serverIDs is empty.
GetToolInfosByServerIDsBegin(p) ==
    /\ pc[p] = "idle"
    /\ \E ids \in IdSlices :
         /\ batch' = [batch EXCEPT ![p] =
                [ids |-> ids, i |-> 1, got |-> <<>>, all |-> <<>>]]
         /\ IF ids = <<>>
            THEN /\ pc' = [pc EXCEPT ![p] = "ti_ret"]
                 /\ ret' = [ret EXCEPT ![p] = <<>>]
            ELSE /\ pc' = [pc EXCEPT ![p] = "ti_loop"]
                 /\ UNCHANGED ret
    /\ UNCHANGED <<mgr, locks, serial, arg, aux, hist, session, clock>>

\* GetToolInfosByServerIDs, lines 282-283: the call of GetServerTools for
\* ids[i], up to its m.mu.RLock() at line 242.
GetToolInfosByServerIDsCall(p) ==
    /\ pc[p] = "ti_loop"
    /\ CanRLock
    /\ rlock' = rlock \cup {p}
    /\ pc' = [pc EXCEPT ![p] = "st_rlocked"]
    /\ UNCHANGED <<mgr, wlock, serial, arg, ret, aux, hist, probe>>

\* A loop that gives up at the first failing server.
CollectOrAbort(all, r) ==
    IF r.err # NilError THEN <<>> ELSE all \o r.tools

\* GetToolInfosByServerIDs, lines 284-291: an error is logged and skipped,
\* the tools of a successful call are appended.
Collect(all, r) ==
    IF r.err # NilError THEN all ELSE all \o r.tools

\* GetToolInfosByServerIDs, lines 283-293: GetServerTools has returned to
\* the loop, which goes on with the next id or returns allTools.
GetToolInfosByServerIDsCollect(p) ==
    /\ pc[p] = "st_ret"
    /\ batch[p] # NoBatch
    /\ LET b == batch[p]
           all == Collect(b.all, ret[p])
           last == b.i = Len(b.ids)
       IN /\ batch' = [batch EXCEPT ![p] =
                 [ids |-> b.ids, i |-> b.i + 1,
                  got |-> Append(b.got, ret[p]), all |-> all]]
          /\ pc' = [pc EXCEPT ![p] = IF last THEN "ti_ret" ELSE "ti_loop"]
          /\ ret' = [ret EXCEPT ![p] = IF last THEN all ELSE NoRet]
    /\ arg' = [arg EXCEPT ![p] = NoArg]
    /\ aux' = [aux EXCEPT ![p] = NoAux]
    /\ session' = [session EXCEPT ![p] = "none"]
    /\ clock' = [clock EXCEPT ![p] = 0]
    /\ UNCHANGED <<mgr, locks, serial, hist>>

\* A CreateToolset that stores what it builds in the cache.
CreateToolsetCached(p) ==
    /\ Enter(p, "ct_ret")
    /\ \E cfg \in {c \in MCPServerConfig : c.Enabled}, fail \in BOOLEAN :
         LET r == createToolsetLocked(cfg, serial, fail) IN
         /\ r.n <= MaxBuilds
         /\ serial' = r.n
         /\ arg' = [arg EXCEPT ![p] = cfg]
         /\ ret' = [ret EXCEPT ![p] = r]
         /\ toolsets' = IF r.err THEN toolsets ELSE Put(toolsets, cfg.ID, r.ts)
    /\ UNCHANGED <<ctx, configs, locks, aux, live, enabledIds, probe>>

\* CreateToolset, lines 128-130: called with any config, no lock taken.
CreateToolset(p) ==
    /\ Enter(p, "ct_ret")
    /\ \E cfg \in {c \in MCPServerConfig : c.Enabled}, fail \in BOOLEAN :
         LET r == createToolsetLocked(cfg, serial, fail) IN
         /\ r.n <= MaxBuilds
         /\ serial' = r.n
         /\ arg' = [arg EXCEPT ![p] = cfg]
         /\ ret' = [ret EXCEPT ![p] = r]
    /\ UNCHANGED <<mgr, locks, aux, live, enabledIds, probe>>

\* TestConnection, GetServerTools, GetToolInfosByServerIDs and CreateToolset
\* return to a caller outside the module.
Return(p) ==
    /\ pc[p] \in {"tc_ret", "st_ret", "ct_ret", "ti_ret"}
    /\ pc[p] = "st_ret" => batch[p] = NoBatch
    /\ Leave(p)
    /\ session' = [session EXCEPT ![p] = "none"]
    /\ clock' = [clock EXCEPT ![p] = 0]
    /\ batch' = [batch EXCEPT ![p] = NoBatch]
    /\ UNCHANGED <<mgr, locks, serial, hist>>

Next ==
    \E p \in Procs :
        \/ InitializeLock(p)
        \/ InitializeBody(p)
        \/ LoadConfigsLock(p)
        \/ LoadConfigsReset(p)
        \/ LoadConfigsBody(p)
        \/ GetToolsetsByIDsLock(p)
        \/ GetToolsetsByIDsBody(p)
        \/ GetAllToolsetsLock(p)
        \/ GetAllToolsetsBody(p)
        \/ Unlock(p)
        \/ GetAllStatusRLock(p)
        \/ GetAllStatusBody(p)
        \/ GetAllStatusRUnlock(p)
        \/ TestConnectionRLock(p)
        \/ TestConnectionRead(p)
        \/ TestConnectionConnect(p)
        \/ TestConnectionDeadline(p)
        \/ GetServerToolsRLock(p)
        \/ GetServerToolsRead(p)
        \/ GetServerToolsConnect(p)
        \/ GetServerToolsList(p)
        \/ GetServerToolsDeadline(p)
        \/ Elapse(p)
        \/ CreateToolset(p)
        \/ Return(p)

Spec == Init /\ [][Next]_vars

\* The operations that work outside the cache, next to a reload and a
\* cache-filling getter; every server answers before the deadline.
NextAdhoc ==
    \E p \in Procs :
        \/ LoadConfigsLock(p)
        \/ LoadConfigsReset(p)
        \/ LoadConfigsBody(p)
        \/ GetAllToolsetsLock(p)
        \/ GetAllToolsetsBody(p)
        \/ Unlock(p)
        \/ TestConnectionRLock(p)
        \/ TestConnectionRead(p)
        \/ TestConnectionConnect(p)
        \/ GetServerToolsRLock(p)
        \/ GetServerToolsRead(p)
        \/ GetServerToolsConnect(p)
        \/ GetServerToolsList(p)
        \/ GetToolInfosByServerIDsBegin(p)
        \/ GetToolInfosByServerIDsCall(p)
        \/ GetToolInfosByServerIDsCollect(p)
        \/ CreateToolset(p)
        \/ Return(p)

SpecAdhoc == Init /\ [][NextAdhoc]_vars

\* GetServerTools alone and in the loop of GetToolInfosByServerIDs, next to
\* a reload of the configs.
NextToolInfos ==
    \E p \in Procs :
        \/ LoadConfigsLock(p)
        \/ LoadConfigsReset(p)
        \/ LoadConfigsBody(p)
        \/ Unlock(p)
        \/ GetServerToolsRLock(p)
        \/ GetServerToolsRead(p)
        \/ GetServerToolsConnect(p)
        \/ GetServerToolsList(p)
        \/ GetServerToolsDeadline(p)
        \/ GetToolInfosByServerIDsBegin(p)
        \/ GetToolInfosByServerIDsCall(p)
        \/ GetToolInfosByServerIDsCollect(p)
        \/ Elapse(p)
        \/ Return(p)

SpecToolInfos == Init /\ [][NextToolInfos]_vars

\* A Manager after LoadConfigs has returned, bound to a scope or not, with
\* no toolset built.
InitProbes ==
    /\ ctx \in Scopes \cup {NoScope}
    /\ \E ids \in SUBSET Ids :
         /\ configs \in [ids -> {c \in MCPServerConfig : c.Enabled}]
         /\ \A id \in ids : configs[id].ID = id
         /\ enabledIds = ids
    /\ toolsets = EmptyMap
    /\ wlock = NoProc
    /\ rlock = {}
    /\ serial = 0
    /\ pc = [p \in Procs |-> "idle"]
    /\ arg = [p \in Procs |-> NoArg]
    /\ ret = [p \in Procs |-> NoRet]
    /\ aux = [p \in Procs |-> NoAux]
    /\ live = {}
    /\ session = [p \in Procs |-> "none"]
    /\ clock = [p \in Procs |-> 0]
    /\ batch = [p \in Procs |-> NoBatch]

\* The two probes.
NextProbes ==
    \E p \in Procs :
        \/ TestConnectionRLock(p)
        \/ TestConnectionRead(p)
        \/ TestConnectionConnect(p)
        \/ TestConnectionDeadline(p)
        \/ GetServerToolsRLock(p)
        \/ GetServerToolsRead(p)
        \/ GetServerToolsConnect(p)
        \/ GetServerToolsList(p)
        \/ GetServerToolsDeadline(p)
        \/ Elapse(p)
        \/ Return(p)

\* Time passes for a waiting probe, and a goroutine whose context has
\* reached its deadline is woken by the runtime's timer and runs.  Nothing
\* is assumed of the servers: they may never answer.
FairProbes ==
    \A p \in Procs :
        /\ WF_clock(Elapse(p))
        /\ WF_pc(TestConnectionDeadline(p))
        /\ WF_pc(GetServerToolsDeadline(p))

SpecProbes == InitProbes /\ [][NextProbes]_vars /\ FairProbes

\* ----------------------------------------------- the getters, step by step
\* The loops of GetToolsetsByIDs and GetAllToolsets with every cache lookup
\* and every build a step of its own, so that the lock, and not the
\* granularity of the steps, is what keeps two calls apart.
\* Loop(todo, cfg, result, built): the ids still to visit, the config read
\* for the id being built, the result so far, the toolsets the call built.
Loop(todo, cfg, result, built) ==
    [todo |-> todo, cfg |-> cfg, result |-> result, built |-> built]

\* GetToolsetsByIDs, lines 150-152: the call's ids.
GetToolsetsByIDsStart(p) ==
    /\ pc[p] = "gt_locked"
    /\ \E ids \in IdSlices :
         /\ arg' = [arg EXCEPT ![p] = ids]
         /\ aux' = [aux EXCEPT ![p] = Loop(ids, NoConfig, <<>>, {})]
    /\ pc' = [pc EXCEPT ![p] = "gt_loop"]
    /\ UNCHANGED <<mgr, locks, serial, ret, hist, probe>>

\* GetAllToolsets, lines 184-185: range m.configs, in any order.
GetAllToolsetsStart(p) ==
    /\ pc[p] = "ga_locked"
    /\ \E order \in Orders(DOMAIN configs) :
         aux' = [aux EXCEPT ![p] = Loop(order, NoConfig, <<>>, {})]
    /\ pc' = [pc EXCEPT ![p] = "ga_loop"]
    /\ UNCHANGED <<mgr, locks, serial, arg, ret, hist, probe>>

\* Lines 152-165 and 175-176 of GetToolsetsByIDs, lines 185-190 and 199 of
\* GetAllToolsets: return after the last id; otherwise take the cached
\* toolset of the next id, or skip an id without config, or read its config
\* and go on to build.
Lookup(p, loop, build, done) ==
    /\ pc[p] = loop
    /\ LET l == aux[p] IN
       IF l.todo = <<>>
       THEN /\ pc' = [pc EXCEPT ![p] = done]
            /\ ret' = [ret EXCEPT ![p] = l.result]
            /\ UNCHANGED aux
       ELSE LET id == Head(l.todo) IN
            /\ UNCHANGED ret
            /\ IF id \in DOMAIN toolsets
               THEN /\ aux' = [aux EXCEPT ![p] =
                          Loop(Tail(l.todo), NoConfig,
                               Append(l.result, toolsets[id]), l.built)]
                    /\ UNCHANGED pc
               ELSE IF id \notin DOMAIN configs
               THEN /\ aux' = [aux EXCEPT ![p] =
                          Loop(Tail(l.todo), NoConfig, l.result, l.built)]
                    /\ UNCHANGED pc
               ELSE /\ aux' = [aux EXCEPT ![p] =
                          Loop(l.todo, configs[id], l.result, l.built)]
                    /\ pc' = [pc EXCEPT ![p] = build]
    /\ UNCHANGED <<mgr, locks, serial, arg, hist, probe>>

\* Lines 166-173 of GetToolsetsByIDs, lines 192-197 of GetAllToolsets:
\* createToolsetLocked, and on success the store into the cache.
Build(p, loop, build) ==
    /\ pc[p] = build
    /\ \E fail \in BOOLEAN :
         LET l == aux[p]
             r == createToolsetLocked(l.cfg, serial, fail)
         IN /\ r.n <= MaxBuilds
            /\ serial' = r.n
            /\ IF r.err
               THEN /\ aux' = [aux EXCEPT ![p] =
                          Loop(Tail(l.todo), NoConfig, l.result, l.built)]
                    /\ UNCHANGED <<toolsets, live>>
               ELSE /\ toolsets' = Put(toolsets, l.cfg.ID, r.ts)
                    /\ live' = live \cup {r.ts}
                    /\ aux' = [aux EXCEPT ![p] =
                          Loop(Tail(l.todo), NoConfig, Append(l.result, r.ts),
                               l.built \cup {r.ts})]
    /\ pc' = [pc EXCEPT ![p] = loop]
    /\ UNCHANGED <<ctx, configs, locks, arg, ret, enabledIds, probe>>

GetToolsetsByIDsLookup(p) == Lookup(p, "gt_loop", "gt_build", "gt_ret")
GetToolsetsByIDsBuild(p) == Build(p, "gt_loop", "gt_build")
GetAllToolsetsLookup(p) == Lookup(p, "ga_loop", "ga_build", "ga_ret")
GetAllToolsetsBuild(p) == Build(p, "ga_loop", "ga_build")

NextLazy ==
    \E p \in Procs :
        \/ InitializeLock(p)
        \/ InitializeBody(p)
        \/ LoadConfigsLock(p)
        \/ LoadConfigsReset(p)
        \/ LoadConfigsBody(p)
        \/ GetToolsetsByIDsLock(p)
        \/ GetToolsetsByIDsStart(p)
        \/ GetToolsetsByIDsLookup(p)
        \/ GetToolsetsByIDsBuild(p)
        \/ GetAllToolsetsLock(p)
        \/ GetAllToolsetsStart(p)
        \/ GetAllToolsetsLookup(p)
        \/ GetAllToolsetsBuild(p)
        \/ Unlock(p)

SpecLazy == Init /\ [][NextLazy]_vars

\* ---------------------------------------------------------- ModelFactory
\* Strings of the ModelFactory are sequences of characters.
MaxUrlLen == 4
Chars == {"/", "v", "1", "h"}
URLs == SeqsUpTo(Chars, MaxUrlLen)

\* normalizeOpenAIBaseURL, line 421: "https://api.openai.com/v1"
DefaultOpenAIBaseURL ==
    <<"h", "t", "t", "p", "s", ":", "/", "/", "a", "p", "i", ".", "o", "p", "e", "n", "a", "i", ".", "c", "o", "m", "/", "v", "1">>
\* normalizeOpenAIBaseURL, lines 424-425: "/v1"
V1 == <<"/", "v", "1">>
\* "http://host/v1/" and "http://host/v1"
HostV1Slash ==
    <<"h", "t", "t", "p", ":", "/", "/", "h", "o", "s", "t", "/", "v", "1", "/">>
HostV1 ==
    <<"h", "t", "t", "p", ":", "/", "/", "h", "o", "s", "t", "/", "v", "1">>

\* strings.TrimSuffix(s, "/"), line 487: one trailing slash is removed.
TrimSuffix(s) ==
    IF s # <<>> /\ s[Len(s)] = "/" THEN SubSeq(s, 1, Len(s) - 1) ELSE s

\* A TrimRight that removes at most one trailing slash.
TrimRightOnce(s) == TrimSuffix(s)

\* strings.TrimRight(s, "/"), line 423: every trailing slash is removed.
RECURSIVE TrimRight(_)
TrimRight(s) ==
    IF s # <<>> /\ s[Len(s)] = "/" THEN TrimRight(SubSeq(s, 1, Len(s) - 1)) ELSE s

\* strings.HasSuffix(s, suffix), line 424
HasSuffix(s, suffix) ==
    /\ Len(s) >= Len(suffix)
    /\ SubSeq(s, Len(s) - Len(suffix) + 1, Len(s)) = suffix

\* normalizeOpenAIBaseURL, lines 419-428
normalizeOpenAIBaseURL(baseURL) ==
    IF baseURL = <<>>
    THEN DefaultOpenAIBaseURL
    ELSE LET trimmed == TrimRight(baseURL) IN
         IF ~HasSuffix(trimmed, V1) THEN trimmed \o V1 ELSE trimmed

\* models.AIProviderGemini, models.AIProviderVertexAI, models.AIProviderOpenAI
\* (the case labels of lines 334-338) and two kinds that are none of them.
AIProviderGemini == "gemini"
AIProviderVertexAI == "vertexai"
AIProviderOpenAI == "openai"
Providers == {AIProviderGemini, AIProviderVertexAI, AIProviderOpenAI, "anthropic", ""}

\* models.AIConfig, the fields CreateModel and TestConnection branch on.
AIConfig == [Provider : Providers, UseResponses : BOOLEAN, BaseURL : {<<>>, HostV1Slash}]

NoLLM == [kind |-> "nil", baseURL |-> <<>>]

\* createGeminiModel, lines 349-360: gemini.NewModel may return an error.
createGeminiModel(config, fail) ==
    [llm |-> IF fail THEN NoLLM ELSE [kind |-> "gemini", baseURL |-> <<>>],
     err |-> IF fail THEN <<"gemini.NewModel">> ELSE <<>>,
     built |-> <<"createGeminiModel">>]

\* createVertexAIModel, lines 363-415: the credentials, the HTTP client or
\* gemini.NewModel may return an error.
createVertexAIModel(config, fail) ==
    [llm |-> IF fail THEN NoLLM ELSE [kind |-> "vertexai", baseURL |-> <<>>],
     err |-> IF fail THEN <<"failed to create">> ELSE <<>>,
     built |-> <<"createVertexAIModel">>]

\* createOpenAIModel, lines 431-440
createOpenAIModel(config) ==
    [llm |-> [kind |-> "openai chat",
              baseURL |-> normalizeOpenAIBaseURL(config.BaseURL)],
     err |-> <<>>,
     built |-> <<"createOpenAIModel">>]

\* createOpenAIResponsesModel, lines 443-451
createOpenAIResponsesModel(config) ==
    [llm |-> [kind |-> "openai responses",
              baseURL |-> normalizeOpenAIBaseURL(config.BaseURL)],
     err |-> <<>>,
     built |-> <<"createOpenAIResponsesModel">>]

\* A CreateModel whose default case is the OpenAI chat model.
CreateModelDefaultOpenAI(config, fail) ==
    IF config.Provider = AIProviderGemini THEN createGeminiModel(config, fail)
    ELSE IF config.Provider = AIProviderVertexAI THEN createVertexAIModel(config, fail)
    ELSE IF config.UseResponses THEN createOpenAIResponsesModel(config)
    ELSE createOpenAIModel(config)

\* CreateModel, lines 332-346.  built lists the construction functions the
\* call has run; the error of line 344 is the pair of its text and provider.
CreateModel(config, fail) ==
    IF config.Provider = AIProviderGemini THEN createGeminiModel(config, fail)
    ELSE IF config.Provider = AIProviderVertexAI THEN createVertexAIModel(config, fail)
    ELSE IF config.Provider = AIProviderOpenAI
         THEN IF config.UseResponses
              THEN createOpenAIResponsesModel(config)
              ELSE createOpenAIModel(config)
    ELSE [llm |-> NoLLM,
          err |-> <<"unsupported provider: ", config.Provider>>,
          built |-> <<>>]

\* testOpenAIConnection, lines 472-508: one POST to /chat/completions.
testOpenAIConnection(config, fail) ==
    [err |-> IF fail THEN <<"HTTP">> ELSE <<>>,
     requests |-> <<[method |-> "POST",
                     base |-> TrimSuffix(normalizeOpenAIBaseURL(config.BaseURL)),
                     path |-> "/chat/completions"]>>]

\* testViaGenerate, lines 531-547: one GenerateContent request.
testViaGenerate(llm, fail) ==
    [err |-> IF fail THEN <<"diaoyong shibai">> ELSE <<>>,
     requests |-> <<[method |-> "GenerateContent", base |-> <<>>, path |-> llm.kind]>>]

\* testGeminiConnection, lines 511-518, and testVertexAIConnection, lines
\* 521-528: no request when the client cannot be created.
testGeminiConnection(config, clientFails, fail) ==
    LET r == createGeminiModel(config, clientFails) IN
    IF r.err # <<>>
    THEN [err |-> <<"kehuduan chuangjian shibai">>, requests |-> <<>>]
    ELSE testViaGenerate(r.llm, fail)

testVertexAIConnection(config, clientFails, fail) ==
    LET r == createVertexAIModel(config, clientFails) IN
    IF r.err # <<>>
    THEN [err |-> <<"kehuduan chuangjian shibai">>, requests |-> <<>>]
    ELSE testViaGenerate(r.llm, fail)

\* ModelFactory.TestConnection, lines 455-469.  The text of the error of
\* line 467 is Chinese for "unsupported provider: " (written in pinyin).
ModelFactoryTestConnection(config, clientFails, fail) ==
    IF config.Provider = AIProviderOpenAI THEN testOpenAIConnection(config, fail)
    ELSE IF config.Provider = AIProviderGemini
         THEN testGeminiConnection(config, clientFails, fail)
    ELSE IF config.Provider = AIProviderVertexAI
         THEN testVertexAIConnection(config, clientFails, fail)
    ELSE [err |-> <<"bu zhichi de provider: ", config.Provider>>, requests |-> <<>>]

\* A caller applies normalizeOpenAIBaseURL to a string.
NormalizeOpenAIBaseURLCall(p) ==
    /\ Enter(p, "nu_ret")
    /\ \E u \in URLs \cup {HostV1Slash} :
         /\ arg' = [arg EXCEPT ![p] = u]
         /\ ret' = [ret EXCEPT ![p] = normalizeOpenAIBaseURL(u)]
    /\ UNCHANGED <<mgr, locks, serial, aux, hist, probe>>

\* A caller calls ModelFactory.CreateModel.
CreateModelCall(p) ==
    /\ Enter(p, "cm_ret")
    /\ \E config \in AIConfig, fail \in BOOLEAN :
         /\ arg' = [arg EXCEPT ![p] = config]
         /\ ret' = [ret EXCEPT ![p] = CreateModel(config, fail)]
    /\ UNCHANGED <<mgr, locks, serial, aux, hist, probe>>

\* A caller calls ModelFactory.TestConnection.
ModelFactoryTestConnectionCall(p) ==
    /\ Enter(p, "ft_ret")
    /\ \E config \in AIConfig, clientFails \in BOOLEAN, fail \in BOOLEAN :
         /\ arg' = [arg EXCEPT ![p] = config]
         /\ ret' = [ret EXCEPT ![p] =
                ModelFactoryTestConnection(config, clientFails, fail)]
    /\ UNCHANGED <<mgr, locks, serial, aux, hist, probe>>

\* The call of the ModelFactory returns.
ModelFactoryReturn(p) ==
    /\ pc[p] \in {"nu_ret", "cm_ret", "ft_ret"}
    /\ Leave(p)
    /\ UNCHANGED <<mgr, locks, serial, hist, probe>>

NextModelFactory ==
    \E p \in Procs :
        \/ NormalizeOpenAIBaseURLCall(p)
        \/ CreateModelCall(p)
        \/ ModelFactoryTestConnectionCall(p)
        \/ ModelFactoryReturn(p)

SpecModelFactory == Init /\ [][NextModelFactory]_vars

\* ------------------------------------------------------------------ claims
WriteOps == {"init_locked", "init_ret", "lc_locked", "lc_cleared", "lc_ret",
             "gt_locked", "gt_ret", "ga_locked", "ga_ret"}
ReadOps == {"gs_rlocked", "gs_ret", "tc_rlocked", "st_rlocked"}
\* Toolsets CreateToolset has just handed to its caller.
AdhocLive == {ret[p].ts : p \in {q \in Procs : pc[q] = "ct_ret" /\ ~ret[q].err}}
OfId(S, id) == {c \in S : c.id = id}

\* C1: in every state the ids that have a cached toolset are ids of the
\* enabled config set.
C1_CacheWithinConfigs == DOMAIN toolsets \subseteq DOMAIN configs

\* A call has returned leaving a toolset cached for one enabled id and none
\* for another.
C1_Witness ==
    /\ wlock = NoProc
    /\ DOMAIN toolsets # {}
    /\ DOMAIN toolsets # DOMAIN configs

\* C2: LoadConfigs drops every cached toolset: none of the toolsets it found
\* in the cache is cached when it returns, whatever it was called with; every
\* toolset that enters the cache is one that did not exist before that step;
\* GetToolsetsByIDs and GetAllToolsets return cached toolsets only; after
\* LoadConfigs([]) the cache is empty, and with no config GetAllToolsets
\* returns the empty sequence.
C2_ReloadDropsCache ==
    /\ [](\A p \in Procs :
            /\ pc[p] \in {"lc_cleared", "lc_ret"} =>
                  Range(toolsets) \cap aux[p].dropped = {}
            /\ (pc[p] = "lc_ret" /\ arg[p] = <<>>) => toolsets = EmptyMap
            /\ pc[p] \in {"gt_ret", "ga_ret"} => Range(ret[p]) \subseteq Range(toolsets)
            /\ (pc[p] = "ga_ret" /\ configs = EmptyMap) => ret[p] = <<>>)
    /\ [][\A x \in DOMAIN toolsets' :
            (x \notin DOMAIN toolsets \/ toolsets'[x] # toolsets[x])
                => toolsets'[x].n > serial]_vars

\* LoadConfigs has dropped a cached toolset and, the context being bound,
\* cached a new one for the same id.
C2_Witness ==
    \E p \in Procs :
        /\ pc[p] = "lc_ret"
        /\ \E o \in aux[p].dropped :
              o.id \in DOMAIN toolsets /\ toolsets[o.id] # o

\* C3, as stated: at most one live toolset per config id, counting the
\* toolsets built for the cache since the last LoadConfigs and the ones
\* CreateToolset handed out.
C3_OneLivePerIdAll ==
    \A id \in Ids : Cardinality(OfId(live \cup AdhocLive, id)) <= 1

\* C3, amended: at most one live toolset per config id among the toolsets
\* built for the cache since the last LoadConfigs.
C3_OneLivePerId ==
    \A id \in Ids : Cardinality(OfId(live, id)) <= 1

\* GetToolsetsByIDs asked twice for one id has returned one toolset twice.
C3_Witness ==
    \E p \in Procs :
        /\ pc[p] = "gt_ret"
        /\ Len(ret[p]) = 2
        /\ ret[p][1] = ret[p][2]
        /\ OfId(live, ret[p][1].id) = {ret[p][1]}

\* The step is LoadConfigs dropping the cache.
IsReset == \E p \in Procs : pc[p] = "lc_locked" /\ pc'[p] = "lc_cleared"

\* C4: a cached toolset stays the cached toolset of its id, and no other
\* toolset is built for that id, in every step but LoadConfigs's reset;
\* GetToolsetsByIDs returns the toolset cached before the call for each such
\* id it is asked for; GetAllToolsets returns each cached toolset once and
\* nothing else.
C4_CachedIsReused ==
    /\ [][~IsReset =>
            \A x \in DOMAIN toolsets :
                /\ x \in DOMAIN toolsets'
                /\ toolsets'[x] = toolsets[x]
                /\ OfId(live' \ live, x) = {}]_vars
    /\ [](\A p \in Procs :
            /\ pc[p] = "gt_ret" =>
                  \A i \in 1..Len(arg[p]) :
                      arg[p][i] \in DOMAIN toolsets =>
                          toolsets[arg[p][i]] \in Range(ret[p])
            /\ pc[p] = "ga_ret" =>
                  /\ Range(ret[p]) = Range(toolsets)
                  /\ Len(ret[p]) = Cardinality(DOMAIN toolsets))

\* One config is loaded, Initialize has run, and GetAllToolsets has returned
\* one toolset without building any.
C4_Witness ==
    \E p \in Procs :
        /\ pc[p] = "ga_ret"
        /\ ctx # NoScope
        /\ Cardinality(DOMAIN configs) = 1
        /\ Len(ret[p]) = 1
        /\ aux[p].built = {}

\* C5: GetAllStatus returns one record per id enabled in the latest
\* LoadConfigs argument (none before any LoadConfigs), each carrying the id
\* alone.
C5_StatusIsEnabledSet ==
    \A p \in Procs :
        pc[p] = "gs_ret" =>
            /\ {ret[p][i].ID : i \in 1..Len(ret[p])} = enabledIds
            /\ Len(ret[p]) = Cardinality(enabledIds)
            /\ \A i \in 1..Len(ret[p]) :
                  ret[p][i] = [ID |-> ret[p][i].ID, Connected |-> FALSE, Error |-> ""]

\* GetAllStatus has returned one record while a second id is not enabled.
C5_Witness ==
    \E p \in Procs :
        /\ pc[p] = "gs_ret"
        /\ Len(ret[p]) = 1
        /\ enabledIds # Ids

\* The ids of s that are keys of m, in the order of s.
RECURSIVE Configured(_, _)
Configured(s, m) ==
    IF s = <<>> THEN <<>>
    ELSE IF Head(s) \in DOMAIN m
         THEN <<Head(s)>> \o Configured(Tail(s), m)
         ELSE Configured(Tail(s), m)

\* f embeds r into ids in order: r[k] is the cached toolset of ids[f[k]].
Embeds(f, r, ids) ==
    /\ \A k \in DOMAIN r :
          /\ ids[f[k]] \in DOMAIN configs
          /\ ids[f[k]] \in DOMAIN toolsets
          /\ r[k] = toolsets[ids[f[k]]]
    /\ \A k, l \in DOMAIN r : k < l => f[k] < f[l]

\* C6: GetToolsetsByIDs(ids) returns at most Len(ids) toolsets, each the
\* cached toolset of a configured id of ids, in the order of ids; an id that
\* is not configured contributes nothing; an id with a cached toolset after
\* the call contributes it, an id without one (its build failed) nothing;
\* when no build fails the result is the toolsets of the configured ids of
\* ids, in order; when no id is configured it is empty.
C6_ByIDsInOrder ==
    \A p \in Procs :
        pc[p] = "gt_ret" =>
            LET ids == arg[p]
                r == ret[p]
            IN /\ Len(r) <= Len(ids)
               /\ \E f \in [DOMAIN r -> DOMAIN ids] : Embeds(f, r, ids)
               /\ \A i \in DOMAIN ids :
                     /\ ids[i] \notin DOMAIN configs =>
                           \A k \in DOMAIN r : r[k].id # ids[i]
                     /\ ids[i] \in DOMAIN toolsets <=>
                           \E k \in DOMAIN r : r[k].id = ids[i]
               /\ aux[p].fails = {} =>
                     /\ Range(Configured(ids, configs)) \subseteq DOMAIN toolsets
                     /\ r = [k \in DOMAIN Configured(ids, configs) |->
                                toolsets[Configured(ids, configs)[k]]]
               /\ (\A i \in DOMAIN ids : ids[i] \notin DOMAIN configs) => r = <<>>

\* GetToolsetsByIDs has skipped an unconfigured id and returned the toolset
\* of the configured id after it.
C6_Witness ==
    \E p \in Procs :
        /\ pc[p] = "gt_ret"
        /\ Len(arg[p]) = 2
        /\ arg[p][1] \notin DOMAIN configs
        /\ Len(ret[p]) = 1
        /\ ret[p][1].id = arg[p][2]

\* The step is goroutine p's.
Steps(p) == pc'[p] # pc[p]

\* The record TestConnection returns for an id without config, with the
\* given error text.
Missing(id, text) == [ID |-> id, Connected |-> FALSE, Error |-> text]

\* C7, as stated: TestConnection of an id that is not in the enabled config
\* set returns {id, connected:false, error:"configuration missing"}.
C7_MissingAsStated ==
    [][\A p \in Procs :
          (pc[p] = "tc_rlocked" /\ Steps(p) /\ arg'[p] \notin DOMAIN configs)
              => ret'[p] = Missing(arg'[p], "configuration missing")]_vars

\* C7, amended: TestConnection of an id that is not in the enabled config
\* set returns {id, connected:false} with the source's fixed error text, at
\* the lookup, with no connection attempted and the config set and the cache
\* as they were; a call that returns this record has opened no session.
C7_MissingReported ==
    /\ [][\A p \in Procs :
            (pc[p] = "tc_rlocked" /\ Steps(p) /\ arg'[p] \notin DOMAIN configs)
                => /\ pc'[p] = "tc_ret"
                   /\ ret'[p] = Missing(arg'[p], ErrNotConfigured)
                   /\ session'[p] = "none"
                   /\ configs' = configs
                   /\ toolsets' = toolsets]_vars
    /\ [](\A p \in Procs :
            (pc[p] = "tc_ret" /\ ret[p].Error = ErrNotConfigured)
                => session[p] = "none")

\* TestConnection is returning for an id that has no config.
C7_Witness ==
    \E p \in Procs :
        /\ pc[p] = "tc_ret"
        /\ arg[p] \notin DOMAIN configs
        /\ aux[p] = NoConfig
        /\ ret[p] = Missing(arg[p], ErrNotConfigured)

\* C8: once a scope is bound, no step changes the bound scope.
C8_ScopeBoundOnce == [][ctx # NoScope => ctx' = ctx]_vars

\* C9: Initialize returns no error and leaves cached the ids cached before
\* it and the configured ids whose build did not fail; LoadConfigs with a
\* context bound returns no error and leaves cached exactly the enabled ids
\* whose build did not fail.
C9_BestEffort ==
    [][\A p \in Procs :
          /\ (pc[p] = "init_locked" /\ pc'[p] = "init_ret") =>
                /\ ret'[p] = NilError
                /\ DOMAIN toolsets' =
                      DOMAIN toolsets \cup (DOMAIN configs \ aux'[p].fails)
          /\ (pc[p] = "lc_cleared" /\ pc'[p] = "lc_ret" /\ ctx # NoScope) =>
                /\ ret'[p] = NilError
                /\ DOMAIN toolsets' = enabledIds' \ aux'[p].fails]_vars

\* Initialize has returned after one build failed and another succeeded.
C9_Witness ==
    \E p \in Procs :
        /\ pc[p] = "init_ret"
        /\ aux[p].fails # {}
        /\ aux[p].built # {}

AdhocOps == {"tc_rlocked", "tc_connect", "tc_ret", "st_rlocked", "st_connect",
             "st_list", "st_ret", "ti_loop", "ti_ret", "ct_ret"}

\* C11: a step of TestConnection, GetServerTools, GetToolInfosByServerIDs or
\* CreateToolset leaves the config set and the cache as they were, and what
\* GetAllToolsets or GetToolsetsByIDs returns is never a toolset that
\* CreateToolset has handed out.
C11_ProbesBypassCache ==
    [][/\ \A p \in Procs :
            (Steps(p) /\ (pc[p] \in AdhocOps \/ pc'[p] \in AdhocOps))
                => (configs' = configs /\ toolsets' = toolsets)
       /\ \A q \in Procs :
            (Steps(q) /\ pc'[q] \in {"gt_ret", "ga_ret"})
                => /\ Range(ret'[q]) \cap AdhocLive' = {}
                   /\ Range(ret'[q]) \cap AdhocLive = {}]_vars

\* A getter returns the cached toolset of an id while CreateToolset has
\* handed out another toolset of the same id.
C11_Witness ==
    \E p, q \in Procs :
        /\ pc[p] = "ga_ret" /\ ret[p] # <<>>
        /\ pc[q] = "ct_ret" /\ ~ret[q].err
        /\ ret[q].ts.id = ret[p][1].id
        /\ ret[q].ts # ret[p][1]

\* C12: GetServerTools called with an id that is not configured returns no
\* tools and no error without opening a session; called with a configured
\* id it goes on to connect, and then returns either an error with no tools
\* or, after a successful listing, one descriptor per remote tool, each
\* carrying the id the call was made with and the Name of that id's config.
C12_UnknownOrUnreachable ==
    [][\A p \in Procs :
        /\ (pc[p] = "st_rlocked" /\ Steps(p)) =>
              IF arg'[p] \in DOMAIN configs
              THEN pc'[p] = "st_connect" /\ aux'[p] = configs[arg'[p]]
              ELSE /\ pc'[p] = "st_ret"
                   /\ ret'[p] = [tools |-> <<>>, err |-> NilError]
                   /\ session'[p] = "none"
        /\ (pc[p] \in {"st_connect", "st_list"} /\ pc'[p] = "st_ret") =>
              IF ret'[p].err # NilError
              THEN ret'[p].tools = <<>>
              ELSE /\ pc[p] = "st_list"
                   /\ \E tools \in SeqsUpTo(ToolNames, 1) :
                        /\ Len(ret'[p].tools) = Len(tools)
                        /\ \A k \in DOMAIN tools :
                             ret'[p].tools[k] =
                                 [Name |-> tools[k], ServerID |-> arg[p],
                                  ServerName |-> aux[p].Name]]_vars

\* GetServerTools has listed the one tool of a configured server.
C12_Witness ==
    \E p \in Procs :
        /\ pc[p] = "st_ret"
        /\ batch[p] = NoBatch
        /\ arg[p] \in DOMAIN configs
        /\ ret[p].err = NilError
        /\ Len(ret[p].tools) = 1

\* The tools of the first k results of a batch, failures left out.
RECURSIVE Succeeded(_, _)
Succeeded(got, k) ==
    IF k = 0 THEN <<>>
    ELSE Succeeded(got, k - 1) \o
         (IF got[k].err = NilError THEN got[k].tools ELSE <<>>)

\* C13: GetToolInfosByServerIDs calls GetServerTools once for every id of
\* its argument, in order, whatever the earlier calls returned, and what it
\* has collected after k calls, and returns after the last, is the tools of
\* the calls among them that returned no error, in the order of the ids.
C13_BatchNeverFails ==
    \A p \in Procs :
        LET b == batch[p] IN
        /\ pc[p] \in {"ti_loop", "ti_ret"} =>
              /\ Len(b.got) = b.i - 1
              /\ b.i <= Len(b.ids) + 1
              /\ b.all = Succeeded(b.got, Len(b.got))
              /\ \A k \in DOMAIN b.got : \A j \in DOMAIN b.got[k].tools :
                     b.got[k].tools[j].ServerID = b.ids[k]
        /\ pc[p] = "ti_loop" => b.i <= Len(b.ids)
        /\ pc[p] = "ti_ret" => Len(b.got) = Len(b.ids) /\ ret[p] = b.all

\* GetToolInfosByServerIDs returns the tool of its second id after the
\* call for its first id has failed.
C13_Witness ==
    \E p \in Procs :
        /\ pc[p] = "ti_ret"
        /\ Len(batch[p].ids) = 2
        /\ batch[p].got[1].err # NilError
        /\ Len(ret[p]) = 1
        /\ ret[p][1].ServerID = batch[p].ids[2]

\* C14: a TestConnection that waits for its server leaves the wait, and
\* when it does so at its deadline of 5 it returns Connected false with a
\* non-empty Error; a GetServerTools that waits for its server to connect or
\* to list its tools leaves the wait, and when it does so at its deadline of
\* 10 it returns an error and no tools.  The deadlines are the same whether
\* or not the Manager is bound to a scope.
C14_ProbesNeverHang ==
    \A p \in Procs :
        /\ (pc[p] = "tc_connect") ~> (pc[p] = "tc_ret")
        /\ (pc[p] \in {"st_connect", "st_list"}) ~> (pc[p] = "st_ret")
        /\ [](pc[p] = "tc_connect" => clock[p] \in {0, 5})
        /\ [](pc[p] \in {"st_connect", "st_list"} => clock[p] \in {0, 10})
        /\ []((pc[p] = "tc_ret" /\ clock[p] = 5) =>
                 (~ret[p].Connected /\ ret[p].Error # ""))
        /\ []((pc[p] = "st_ret" /\ clock[p] = 10) =>
                 (ret[p].err # NilError /\ ret[p].tools = <<>>))

\* With the Manager bound to a scope, one TestConnection and one
\* GetServerTools, the latter connected and listing, have both returned at
\* their deadlines.
C14_Witness ==
    \E p, q \in Procs :
        /\ ctx # NoScope
        /\ pc[p] = "tc_ret" /\ clock[p] = 5 /\ ret[p].Error = ErrDeadline
        /\ pc[q] = "st_ret" /\ clock[q] = 10 /\ session[q] = "closed"
        /\ ret[q].err = ErrDeadline

\* s without its trailing slashes: the longest prefix of s that does not
\* end with a slash.
Stripped(s) ==
    LET K == {k \in 0..Len(s) : k = 0 \/ s[k] # "/"}
        k == CHOOSE x \in K : \A y \in K : y <= x
    IN SubSeq(s, 1, k)

\* C15: normalizeOpenAIBaseURL applied to its own result gives that result;
\* the empty string gives "https://api.openai.com/v1"; for a non-empty
\* string the result has no trailing slash, ends with "/v1", and is the
\* string without its trailing slashes when that ends with "/v1", and that
\* with "/v1" appended otherwise; "http://host/v1/" gives "http://host/v1".
C15_NormalizeIdempotent ==
    /\ normalizeOpenAIBaseURL(<<>>) = DefaultOpenAIBaseURL
    /\ normalizeOpenAIBaseURL(HostV1Slash) = HostV1
    /\ \A p \in Procs :
         pc[p] = "nu_ret" =>
           LET u == arg[p]
               r == ret[p]
               s == Stripped(u)
           IN /\ normalizeOpenAIBaseURL(r) = r
              /\ u # <<>> =>
                   /\ r # <<>> /\ r[Len(r)] # "/"
                   /\ HasSuffix(r, V1)
                   /\ HasSuffix(s, V1) => r = s
                   /\ ~HasSuffix(s, V1) => r = s \o V1
                   /\ r # s => ~HasSuffix(TrimSuffix(u), V1)

\* normalizeOpenAIBaseURL has been applied to "/v1/" and to a string with
\* two trailing slashes and no "/v1".
C15_Witness ==
    \E p, q \in Procs :
        /\ pc[p] = "nu_ret" /\ arg[p] = <<"/", "v", "1", "/">> /\ ret[p] = V1
        /\ pc[q] = "nu_ret" /\ arg[q] = <<"h", "/", "/">>
        /\ ret[q] = <<"h", "/", "v", "1">>

\* C16: CreateModel runs exactly one construction function, the one of the
\* config's provider (for OpenAI the responses one when UseResponses is
\* set, the chat one otherwise), and for any other provider runs none and
\* returns the unsupported-provider error with no model; for such a
\* provider ModelFactory.TestConnection returns an error and sends no
\* request.
C16_DispatchExactlyOne ==
    \A p \in Procs :
        /\ pc[p] = "cm_ret" =>
             LET c == arg[p]
                 r == ret[p]
             IN IF c.Provider \in {AIProviderGemini, AIProviderVertexAI, AIProviderOpenAI}
                THEN /\ Len(r.built) = 1
                     /\ r.built[1] =
                          IF c.Provider = AIProviderGemini THEN "createGeminiModel"
                          ELSE IF c.Provider = AIProviderVertexAI THEN "createVertexAIModel"
                          ELSE IF c.UseResponses THEN "createOpenAIResponsesModel"
                          ELSE "createOpenAIModel"
                     /\ r.err = <<>> <=> r.llm # NoLLM
                ELSE /\ r.built = <<>>
                     /\ r.llm = NoLLM
                     /\ r.err = <<"unsupported provider: ", c.Provider>>
        /\ pc[p] = "ft_ret" =>
             (arg[p].Provider \notin {AIProviderGemini, AIProviderVertexAI, AIProviderOpenAI}
                 => (ret[p].err # <<>> /\ ret[p].requests = <<>>))

\* CreateModel has built the responses model for one caller and refused
\* an unsupported provider for another.
C16_Witness ==
    \E p, q \in Procs :
        /\ pc[p] = "cm_ret" /\ ret[p].built = <<"createOpenAIResponsesModel">>
        /\ pc[q] = "cm_ret" /\ arg[q].Provider = "anthropic"
        /\ ret[q].built = <<>>

\* The positions from which a goroutine's next step reads the configs or
\* the cache.
Observers == {"gs_rlocked", "tc_rlocked", "st_rlocked", "gt_locked", "ga_locked"}

\* C17: whenever GetAllStatus, TestConnection, GetServerTools,
\* GetToolsetsByIDs or GetAllToolsets is about to read the configs or the
\* cache, no LoadConfigs is between taking and releasing the lock, the
\* configs are exactly the enabled entries of the latest LoadConfigs that
\* returned, and the cache holds toolsets of those ids only.
C17_ReloadAtomic ==
    \A q \in Procs :
        pc[q] \in Observers =>
            /\ \A p \in Procs : pc[p] \notin {"lc_locked", "lc_cleared", "lc_ret"}
            /\ DOMAIN configs = enabledIds
            /\ DOMAIN toolsets \subseteq enabledIds
            /\ \A id \in DOMAIN configs : configs[id].ID = id /\ configs[id].Enabled

\* A LoadConfigs has emptied the maps and not yet filled them while a
\* TestConnection that read its config from the previous set is under way.
C17_Witness ==
    \E p, q \in Procs :
        /\ pc[p] = "lc_cleared"
        /\ enabledIds # {}
        /\ configs = EmptyMap
        /\ pc[q] = "tc_connect"
        /\ aux[q].ID \in enabledIds

\* The positions of GetToolsetsByIDs and GetAllToolsets inside their loops.
InLoop == {"gt_loop", "gt_build", "ga_loop", "ga_build"}

\* C18: between two LoadConfigs at most one toolset is built for the cache
\* per id, the toolset cached for an id is not replaced by another, and
\* every toolset a call of GetToolsetsByIDs or GetAllToolsets has taken
\* for its result is the one the cache holds for its id: the callers that
\* ask for an id all receive the one toolset built for it.
C18_BuiltOnceSharedByAll ==
    /\ [](\A id \in Ids : Cardinality(OfId(live, id)) <= 1)
    /\ [](\A p \in Procs :
            /\ pc[p] \in InLoop =>
                 \A k \in DOMAIN aux[p].result :
                    LET o == aux[p].result[k] IN
                    o.id \in DOMAIN toolsets /\ toolsets[o.id] = o
            /\ pc[p] \in {"gt_ret", "ga_ret"} =>
                 \A k \in DOMAIN ret[p] :
                    LET o == ret[p][k] IN
                    o.id \in DOMAIN toolsets /\ toolsets[o.id] = o)
    /\ [][\A id \in DOMAIN toolsets :
            id \in DOMAIN toolsets' => toolsets'[id] = toolsets[id]]_vars

\* A call returns for an id the toolset that an earlier call built: the one
\* build so far was not made by the returning call.
C18_Witness ==
    \E p \in Procs :
        /\ pc[p] \in {"gt_ret", "ga_ret"}
        /\ ret[p] # <<>>
        /\ aux[p].built = {}
        /\ serial = 1
        /\ live = {ret[p][1]}

\* C19: a LoadConfigs that runs while no scope is bound builds nothing and
\* leaves the cache empty.  GetAllToolsets, for every configured id without
\* a cache entry, and GetToolsetsByIDs, for every such id among its ids,
\* attempts the build: the id has a cache entry afterwards, holding a toolset
\* built by this call, exactly when an attempt succeeded, and has none when
\* the build failed; the entries of the ids that were cached stay as they
\* were and no other entry appears.
C19_LazyAndRetried ==
    [][\A p \in Procs :
        /\ (pc[p] = "lc_cleared" /\ Steps(p) /\ ctx = NoScope) =>
              (toolsets' = EmptyMap /\ serial' = serial)
        /\ (pc[p] \in {"ga_locked", "gt_locked"} /\ Steps(p)) =>
              /\ \A id \in DOMAIN toolsets :
                    id \in DOMAIN toolsets' /\ toolsets'[id] = toolsets[id]
              /\ \A id \in DOMAIN toolsets' \ DOMAIN toolsets :
                    /\ id \in DOMAIN configs
                    /\ toolsets'[id] \in aux'[p].built
                    /\ toolsets'[id] \in Range(ret'[p])
        /\ (pc[p] = "ga_locked" /\ Steps(p)) =>
              \A id \in DOMAIN configs \ DOMAIN toolsets :
                 id \in DOMAIN toolsets' <=> id \notin aux'[p].fails
        /\ (pc[p] = "gt_locked" /\ Steps(p)) =>
              \A id \in Ids \ DOMAIN toolsets :
                 id \in DOMAIN toolsets' <=>
                    /\ id \in DOMAIN configs
                    /\ \E k \in DOMAIN arg'[p] :
                          arg'[p][k] = id /\ k \notin aux'[p].fails]_vars

\* With no scope bound, GetAllToolsets has built and cached the toolset of
\* one configured id while the build of another has failed and left it
\* without a cache entry.
C19_Witness ==
    \E p \in Procs :
        /\ pc[p] = "ga_ret"
        /\ ctx = NoScope
        /\ aux[p].built # {}
        /\ DOMAIN toolsets # DOMAIN configs
        /\ Range(toolsets) = aux[p].built

\* C20, as stated: when TestConnection or GetServerTools returns, the
\* session the call opened is not open any more, so no probe session is
\* open once the probes have returned.
C20_ProbeSessionsClosed ==
    \A p \in Procs : pc[p] \in {"tc_ret", "st_ret"} => session[p] # "open"

====
